---- MODULE Spec2Model ----
(***************************************************************************)
(* AnonymizerService (src/src/anonymizer.service.ts): the entity mapping   *)
(* kept between anonymizeText and deanonymizeText.                         *)
(*                                                                         *)
(* Strings are sequences of one-character strings.  The JavaScript Map      *)
(* entityMap is a sequence of [key, value] records in insertion order.      *)
(* A map key `${entityType}-${start}-${end}` is the tuple                   *)
(* <<entityType, start, end>> and `${entityType}-best` is                   *)
(* <<entityType, "best">>.                                                  *)
(***************************************************************************)
EXTENDS Integers, Sequences, FiniteSets, TLC

\* ------------------------------------------------------------------------
\* Bounds of the model
\* ------------------------------------------------------------------------

\* The longest list of spans the detector returns.
MaxSpans == 3

\* ------------------------------------------------------------------------
\* JavaScript string and array primitives used by the service
\* ------------------------------------------------------------------------

Min(a, b) == IF a < b THEN a ELSE b

Max(a, b) == IF a > b THEN a ELSE b

\* The last character is left out.
SubstringShort(s, start, end) ==
    SubSeq(s, start + 1, end - 1)

\* String.prototype.substring(start, end): both indices are clamped to
\* [0, length] and swapped when start > end.
Substring(s, start, end) ==
    LET a == Min(Max(start, 0), Len(s))
        b == Min(Max(end, 0), Len(s))
    IN  SubSeq(s, Min(a, b) + 1, Max(a, b))

\* String.prototype.includes for a one-character needle.
Includes(s, ch) == \E i \in 1..Len(s) : s[i] = ch

\* Array.prototype.sort (stable), given the comparator's values on the
\* elements: cmp[i][j] is what the comparator returns for (s[i], s[j]).
\* s[i] goes before s[j] when cmp[i][j] < 0, and elements that compare equal
\* keep their order.
ArraySort(s, cmp) ==
    LET n == Len(s)
        Before(j, i) == \/ cmp[j][i] < 0
                        \/ (~(cmp[i][j] < 0) /\ j < i)
        Rank(i) == Cardinality({j \in 1..n : j # i /\ Before(j, i)}) + 1
    IN  [r \in 1..n |-> s[CHOOSE i \in 1..n : Rank(i) = r]]

\* The characters the escape at line 144 puts a backslash before.
RegExpSpecial == {".", "*", "+", "?", "^", "$", "{", "}", "(", ")", "|", "[", "]", "\\"}

\* The backquote character (the string syntax has no literal for it).
BackQuote == "backquote"

\* A replacement string as String.prototype.replace expands it for one match:
\* $$ is a dollar sign, $& the matched text, $ with a backquote the text before
\* the match and $' the text after it; any other character stands for itself
\* (the patterns here have no capture groups, so $1.. are literal).
RECURSIVE ExpandReplacement(_, _, _, _)
ExpandReplacement(repl, matched, before, after) ==
    IF repl = <<>> THEN <<>>
    ELSE IF Head(repl) = "$" /\ Len(repl) >= 2 /\ repl[2] \in {"$", "&", BackQuote, "'"}
    THEN (CASE repl[2] = "$" -> <<"$">>
            [] repl[2] = "&" -> matched
            [] repl[2] = BackQuote -> before
            [] OTHER         -> after)
         \o ExpandReplacement(SubSeq(repl, 3, Len(repl)), matched, before, after)
    ELSE <<Head(repl)>> \o ExpandReplacement(Tail(repl), matched, before, after)

\* entity.anonymized.replace(/[.*+?^${}()|[\]\\]/g, '\\$&'): every special
\* character gets a backslash in front of it.
RECURSIVE EscapeRegExp(_)
EscapeRegExp(s) ==
    IF s = <<>> THEN <<>>
    ELSE (IF Head(s) \in RegExpSpecial
          THEN ExpandReplacement(<<"\\", "$", "&">>, <<Head(s)>>, <<>>, <<>>)
          ELSE <<Head(s)>>)
         \o EscapeRegExp(Tail(s))

\* new RegExp(source): the sequence of atoms the source matches.  A backslash
\* followed by a character is that literal character; an unescaped special
\* character is not a literal ("special" matches no character here; the
\* escape above leaves none).
RECURSIVE RegExpAtoms(_)
RegExpAtoms(src) ==
    IF src = <<>> THEN <<>>
    ELSE IF Head(src) = "\\" /\ Len(src) >= 2
    THEN <<[lit |-> src[2]]>> \o RegExpAtoms(SubSeq(src, 3, Len(src)))
    ELSE IF Head(src) \in RegExpSpecial
    THEN <<[lit |-> "special"]>> \o RegExpAtoms(Tail(src))
    ELSE <<[lit |-> Head(src)]>> \o RegExpAtoms(Tail(src))

\* Whether the atoms match the text at (1-based) position i.
MatchAt(text, atoms, i) ==
    /\ i + Len(atoms) - 1 <= Len(text)
    /\ \A k \in 1..Len(atoms) : atoms[k].lit = text[i + k - 1]

\* result.replace(regex, replacement) with a global regex: matches are found
\* left to right without overlap, each replaced by the expanded replacement.
RECURSIVE ReplaceFrom(_, _, _, _)
ReplaceFrom(text, atoms, repl, i) ==
    IF MatchAt(text, atoms, i)
    THEN ExpandReplacement(repl,
                           SubSeq(text, i, i + Len(atoms) - 1),
                           SubSeq(text, 1, i - 1),
                           SubSeq(text, i + Len(atoms), Len(text)))
         \o (IF Len(atoms) > 0 THEN ReplaceFrom(text, atoms, repl, i + Len(atoms))
             ELSE IF i <= Len(text)
                  THEN <<text[i]>> \o ReplaceFrom(text, atoms, repl, i + 1)
                  ELSE <<>>)
    ELSE IF i > Len(text) THEN <<>>
    ELSE <<text[i]>> \o ReplaceFrom(text, atoms, repl, i + 1)

StringReplaceAll(text, atoms, repl) == ReplaceFrom(text, atoms, repl, 1)

\* ------------------------------------------------------------------------
\* The JavaScript Map: entries in insertion order
\* ------------------------------------------------------------------------

MapHas(m, k) == \E i \in 1..Len(m) : m[i].key = k

MapGet(m, k) == m[CHOOSE i \in 1..Len(m) : m[i].key = k].value

\* The entry set is the only one left.
MapSetAlone(m, k, v) == <<[key |-> k, value |-> v]>>

\* Map.set: an existing key keeps its place, a new key goes last.
MapSet(m, k, v) ==
    IF MapHas(m, k)
    THEN [i \in 1..Len(m) |-> IF m[i].key = k THEN [key |-> k, value |-> v] ELSE m[i]]
    ELSE Append(m, [key |-> k, value |-> v])

RECURSIVE MapDelete(_, _)
MapDelete(m, k) ==
    IF m = <<>> THEN <<>>
    ELSE (IF Head(m).key = k THEN <<>> ELSE <<Head(m)>>) \o MapDelete(Tail(m), k)

MapKeys(m) == [i \in 1..Len(m) |-> m[i].key]

MapValues(m) == [i \in 1..Len(m) |-> m[i].value]

\* ------------------------------------------------------------------------
\* Entity types and placeholders
\* ------------------------------------------------------------------------

\* The characters of an entity type's name, for `[${entityType}]`.
TypeChars(t) ==
    CASE t = "PERSON"       -> <<"P","E","R","S","O","N">>
      [] t = "PHONE_NUMBER" -> <<"P","H","O","N","E","_","N","U","M","B","E","R">>
      [] t = "DATE_TIME"    -> <<"D","A","T","E","_","T","I","M","E">>
      [] t = "ORGANIZATION" -> <<"O","R","G","A","N","I","Z","A","T","I","O","N">>
      [] t = "LOCATION"     -> <<"L","O","C","A","T","I","O","N">>
      [] t = "URL"          -> <<"U","R","L">>

\* `[${entityType}]`
Bracketed(t) == <<"[">> \o TypeChars(t) \o <<"]">>

PERSON_PH == <<"[","P","E","R","S","O","N","]">>

PHONE_PH == <<"[","P","H","O","N","E","]">>

DATE_TIME_PH == <<"[","D","A","T","E","_","T","I","M","E","]">>

ORGANIZATION_PH == <<"[","O","R","G","A","N","I","Z","A","T","I","O","N","]">>

LOCATION_PH == <<"[","L","O","C","A","T","I","O","N","]">>

URL_PH == <<"[","U","R","L","]">>

\* The item's text is never used.
ItemPlaceholderNoText(result) ==
    CASE result.entity_type = "PERSON"       -> PERSON_PH
      [] result.entity_type = "PHONE_NUMBER" -> PHONE_PH
      [] result.entity_type = "DATE_TIME"    -> DATE_TIME_PH
      [] result.entity_type = "ORGANIZATION" -> ORGANIZATION_PH
      [] result.entity_type = "LOCATION"     -> LOCATION_PH
      [] OTHER -> Bracketed(result.entity_type)

\* The switch over an applied item's entity_type (lines 451-469): five types
\* get a fixed placeholder, every other type the item's text or, when the
\* item has none (undefined or empty, both falsy), `[${entityType}]`.
ItemPlaceholder(result) ==
    CASE result.entity_type = "PERSON"       -> PERSON_PH
      [] result.entity_type = "PHONE_NUMBER" -> PHONE_PH
      [] result.entity_type = "DATE_TIME"    -> DATE_TIME_PH
      [] result.entity_type = "ORGANIZATION" -> ORGANIZATION_PH
      [] result.entity_type = "LOCATION"     -> LOCATION_PH
      [] OTHER -> IF result.text # <<>> THEN result.text
                  ELSE Bracketed(result.entity_type)

\* anonymizedEntities (lines 448-470) as a function of the entity types the
\* applied items name: a later item of a type overwrites an earlier one.
AnonymizedEntities(anonymizerResults) ==
    LET n == Len(anonymizerResults)
        types == {anonymizerResults[i].entity_type : i \in 1..n}
        last(t) == CHOOSE i \in 1..n :
                     /\ anonymizerResults[i].entity_type = t
                     /\ \A j \in (i + 1)..n : anonymizerResults[j].entity_type # t
    IN  [t \in types |-> ItemPlaceholder(anonymizerResults[last(t)])]

\* ------------------------------------------------------------------------
\* buildEntityMapping
\* ------------------------------------------------------------------------

\* The keys of the grouping Map (lines 417-425): the entity types in the
\* order the analyzer results first name them.
RECURSIVE TypesInOrder(_, _)
TypesInOrder(analyzerResults, seen) ==
    IF analyzerResults = <<>> THEN <<>>
    ELSE LET t == Head(analyzerResults).entity_type
         IN  IF t \in seen THEN TypesInOrder(Tail(analyzerResults), seen)
             ELSE <<t>> \o TypesInOrder(Tail(analyzerResults), seen \cup {t})

\* The comparator of lines 431-436: longer spans first, then higher scores.
CompareSpans(a, b) ==
    LET aLength == a.end - a.start
        bLength == b.end - b.start
    IN  IF aLength # bLength THEN bLength - aLength ELSE b.score - a.score

\* entities.sort(...) at lines 431-436.
SortSpans(entities) ==
    ArraySort(entities, [i \in 1..Len(entities) |-> [j \in 1..Len(entities) |->
                  CompareSpans(entities[i], entities[j])]])

\* The key leaves the end out.
SpanKeyByStart(entityType, start, end) == <<entityType, start>>

SpanKey(entityType, start, end) == <<entityType, start, end>>

BestKey(entityType) == <<entityType, "best">>

\* The key is compared with the type itself.
KeyEqualsType(key, entityType) == key = <<entityType>>

\* key.startsWith(`${entityType}-`): no entity type's name holds a dash, so a
\* key starts with the type and a dash exactly when it is a key of that type.
KeyStartsWith(key, entityType) == key[1] = entityType

\* The inner loop of lines 439-444 over one type's sorted spans: the first
\* span of a key is kept.
RECURSIVE AddFirstSeen(_, _, _)
AddFirstSeen(processed, entityType, entities) ==
    IF entities = <<>> THEN processed
    ELSE LET entity == Head(entities)
             key == SpanKey(entityType, entity.start, entity.end)
         IN  AddFirstSeen(IF MapHas(processed, key) THEN processed
                          ELSE MapSet(processed, key, entity),
                          entityType, Tail(entities))

\* processedEntities (lines 428-445): type by type, each type's spans sorted.
RECURSIVE ProcessTypes(_, _, _)
ProcessTypes(processed, types, analyzerResults) ==
    IF types = <<>> THEN processed
    ELSE LET entityType == Head(types)
             entities == SelectSeq(analyzerResults,
                                   LAMBDA r : r.entity_type = entityType)
         IN  ProcessTypes(AddFirstSeen(processed, entityType,
                                       SortSpans(entities)),
                          Tail(types), analyzerResults)

ProcessedEntities(analyzerResults) ==
    ProcessTypes(<<>>, TypesInOrder(analyzerResults, {}), analyzerResults)

\* The threshold of line 485: a PERSON original shorter than this is skipped.
MinPersonLength == 3

\* The threshold is one too low.
LikelyFragmentOffByOne(entityType, originalValue) ==
    entityType = "PERSON" /\ Len(originalValue) < MinPersonLength - 1

\* The test of line 485: a PERSON original this short is likely a fragment.
LikelyFragment(entityType, originalValue) ==
    entityType = "PERSON" /\ Len(originalValue) < MinPersonLength

\* The loop of lines 473-501 over the processed spans.
RECURSIVE ConstructEntities(_, _, _, _)
ConstructEntities(map, originalText, entities, anonymizedEntities) ==
    IF entities = <<>> THEN map
    ELSE LET entity == Head(entities)
             entityType == entity.entity_type
             start == entity.start
             end == entity.end
             originalValue == Substring(originalText, start, end)
             anonymizedValue ==
                 IF entityType \in DOMAIN anonymizedEntities
                      /\ anonymizedEntities[entityType] # <<>>
                 THEN anonymizedEntities[entityType]
                 ELSE Bracketed(entityType)
             key == SpanKey(entityType, start, end)
         IN  IF LikelyFragment(entityType, originalValue)
             THEN ConstructEntities(map, originalText, Tail(entities), anonymizedEntities)
             ELSE ConstructEntities(
                      MapSet(map, key, [original |-> originalValue,
                                        anonymized |-> anonymizedValue,
                                        entityType |-> entityType,
                                        start |-> start,
                                        end |-> end]),
                      originalText, Tail(entities), anonymizedEntities)

\* The comparator of lines 523-531: originals with a plus sign first, then
\* longer originals.
ComparePhone(a, b) ==
    LET aHasPlus == Includes(a.original, "+")
        bHasPlus == Includes(b.original, "+")
    IN  IF aHasPlus # bHasPlus THEN (IF bHasPlus THEN 1 ELSE -1)
        ELSE Len(b.original) - Len(a.original)

\* entities.sort(...) at lines 523-531.
SortPhones(entities) ==
    ArraySort(entities, [i \in 1..Len(entities) |-> [j \in 1..Len(entities) |->
                  ComparePhone(entities[i], entities[j])]])

\* Only the length is compared.
ComparePersonByLength(a, b) == Len(b.original) - Len(a.original)

\* The comparator of lines 556-564: originals with a space first, then
\* longer originals.
ComparePerson(a, b) ==
    LET aHasSpace == Includes(a.original, " ")
        bHasSpace == Includes(b.original, " ")
    IN  IF aHasSpace # bHasSpace THEN (IF bHasSpace THEN 1 ELSE -1)
        ELSE Len(b.original) - Len(a.original)

\* entities.sort(...) at lines 556-564.
SortPersons(entities) ==
    ArraySort(entities, [i \in 1..Len(entities) |-> [j \in 1..Len(entities) |->
                  ComparePerson(entities[i], entities[j])]])

\* keys.forEach(key => this.entityMap.delete(key))
RECURSIVE DeleteAll(_, _)
DeleteAll(map, keys) ==
    IF keys = <<>> THEN map
    ELSE DeleteAll(MapDelete(map, Head(keys)), Tail(keys))

\* Lines 537-539 and 570-572: delete every key of the type.
DeleteKeysOfType(map, entityType) ==
    DeleteAll(map, SelectSeq(MapKeys(map), LAMBDA key : KeyStartsWith(key, entityType)))

\* Lines 533-548 and 566-581: keep only the first of the sorted entities,
\* under the key `${entityType}-best`.
KeepBest(map, entityType, sorted) ==
    LET bestMatch == sorted[1]
    IN  MapSet(DeleteKeysOfType(map, entityType), BestKey(entityType),
               [original |-> bestMatch.original,
                anonymized |-> bestMatch.anonymized,
                entityType |-> entityType,
                start |-> bestMatch.start,
                end |-> bestMatch.end])

\* findBestMatch (lines 511-585).
FindBestMatch(map, originalText, entityType) ==
    LET entities == SelectSeq(MapValues(map), LAMBDA e : e.entityType = entityType)
    IN  IF Len(entities) <= 1 THEN map
        ELSE IF entityType = "PHONE_NUMBER"
        THEN KeepBest(map, entityType, SortPhones(entities))
        ELSE IF entityType = "PERSON"
        THEN KeepBest(map, entityType, SortPersons(entities))
        ELSE map

\* The test for an empty list of items is left out.
BuildEntityMappingAlways(map, originalText, anonymizerResults, analyzerResults) ==
    LET built == ConstructEntities(map, originalText,
                                   MapValues(ProcessedEntities(analyzerResults)),
                                   AnonymizedEntities(anonymizerResults))
    IN  FindBestMatch(FindBestMatch(built, originalText, "PHONE_NUMBER"),
                      originalText, "PERSON")

\* buildEntityMapping (lines 407-506): the entity map it leaves.
BuildEntityMapping(map, originalText, anonymizerResults, analyzerResults) ==
    IF anonymizerResults = <<>> THEN map
    ELSE LET built == ConstructEntities(map, originalText,
                                        MapValues(ProcessedEntities(analyzerResults)),
                                        AnonymizedEntities(anonymizerResults))
         IN  FindBestMatch(FindBestMatch(built, originalText, "PHONE_NUMBER"),
                           originalText, "PERSON")

\* ------------------------------------------------------------------------
\* deanonymizeText
\* ------------------------------------------------------------------------

\* The comparator of line 140: longer anonymized strings first.
CompareAnonymized(a, b) == Len(b.anonymized) - Len(a.anonymized)

\* The sort of lines 139-140.
SortByAnonymized(entities) ==
    ArraySort(entities, [i \in 1..Len(entities) |-> [j \in 1..Len(entities) |->
                  CompareAnonymized(entities[i], entities[j])]])

\* The loop of lines 142-149.
RECURSIVE ReplaceEntities(_, _)
ReplaceEntities(result, sortedEntities) ==
    IF sortedEntities = <<>> THEN result
    ELSE LET entity == Head(sortedEntities)
             escapedAnonymized == EscapeRegExp(entity.anonymized)
             regex == RegExpAtoms(escapedAnonymized)
         IN  ReplaceEntities(StringReplaceAll(result, regex, entity.original),
                             Tail(sortedEntities))

\* deanonymizeText (lines 130-152): the string it returns.
DeanonymizedText(map, anonymizedText) ==
    IF Len(map) = 0 THEN anonymizedText
    ELSE ReplaceEntities(anonymizedText, SortByAnonymized(MapValues(map)))

\* ------------------------------------------------------------------------
\* The callers' texts and the two remote services
\* ------------------------------------------------------------------------

\* "Al Doe, Annabel"
TextPersons == <<"A","l"," ","D","o","e",","," ","A","n","n","a","b","e","l">>

\* "+12/5551234 Rome Oslo"
TextPhones == <<"+","1","2","/","5","5","5","1","2","3","4"," ",
                "R","o","m","e"," ","O","s","l","o">>

\* "Bob a.b/$&"
TextUrl == <<"B","o","b"," ","a",".","b","/","$","&">>

\* "Hello, my name is John Doe and my phone number is +1 555-123-4567."
\* (the README's example, part_000 lines 170-173)
TextScenario ==
    <<"H","e","l","l","o",","," ","m","y"," ","n","a","m","e"," ","i","s",
      " ","J","o","h","n"," ","D","o","e"," ","a","n","d"," ","m","y"," ",
      "p","h","o","n","e"," ","n","u","m","b","e","r"," ","i","s"," ","+",
      "1"," ","5","5","5","-","1","2","3","-","4","5","6","7",".">>

\* "Hello, my name is [PERSON] and my phone number is [PHONE]."
\* (part_000 lines 175-178)
ScenarioAnonymized ==
    <<"H","e","l","l","o",","," ","m","y"," ","n","a","m","e"," ","i","s",
      " ","[","P","E","R","S","O","N","]"," ","a","n","d"," ","m","y"," ",
      "p","h","o","n","e"," ","n","u","m","b","e","r"," ","i","s"," ","[",
      "P","H","O","N","E","]",".">>

\* The texts a caller passes to anonymizeText (line 29).
Texts == {TextPersons, TextPhones, TextUrl, TextScenario}

Span(t, s, e, sc) == [entity_type |-> t, start |-> s, end |-> e, score |-> sc]

\* The spans the analyzer may report for a text (analyzerResponse.data,
\* line 63), scores in tenths.  Every span lies inside its text but the
\* PHONE_NUMBER span [52,67) of the example, whose text has 66 characters.
SpanCandidates(t) ==
    IF t = TextPersons
    THEN {Span("PERSON", 0, 6, 9),   \* "Al Doe"
          Span("PERSON", 3, 6, 8),   \* "Doe"
          Span("PERSON", 0, 2, 8),   \* "Al"
          Span("PERSON", 8, 11, 8),  \* "Ann"
          Span("PERSON", 8, 15, 8)}  \* "Annabel"
    ELSE IF t = TextPhones
    THEN {Span("PHONE_NUMBER", 0, 3, 8),    \* "+12"
          Span("PHONE_NUMBER", 4, 11, 8),   \* "5551234"
          Span("LOCATION", 12, 16, 9),      \* "Rome"
          Span("LOCATION", 17, 21, 9),      \* "Oslo"
          Span("LOCATION", 12, 21, 8)}      \* "Rome Oslo"
    ELSE IF t = TextUrl
    THEN {Span("PERSON", 0, 3, 9),          \* "Bob"
          Span("URL", 4, 10, 8),            \* "a.b/$&"
          Span("URL", 4, 7, 5)}             \* "a.b"
    ELSE {Span("PERSON", 18, 26, 9),        \* "John Doe"
          Span("PHONE_NUMBER", 50, 65, 8),  \* "+1 555-123-4567"
          Span("PHONE_NUMBER", 52, 67, 8)}  \* " 555-123-4567." and beyond

\* The sequences over a set, up to a length.
RECURSIVE SeqsUpTo(_, _)
SeqsUpTo(S, n) ==
    IF n = 0 THEN {<<>>}
    ELSE LET shorter == SeqsUpTo(S, n - 1)
         IN  shorter \cup {Append(q, x) : q \in {r \in shorter : Len(r) = n - 1}, x \in S}

\* What the analyzer answers for a text: no data, or a list of spans.
AnalyzerReplies(t) ==
    {[isNull |-> TRUE, results |-> <<>>]}
    \cup {[isNull |-> FALSE, results |-> q] : q \in SeqsUpTo(SpanCandidates(t), MaxSpans)}

\* "<PERSON>"
AltPersonValue == <<"<","P","E","R","S","O","N",">">>

\* "[[PERSON]]"
AltUrlValue == <<"[","[","P","E","R","S","O","N","]","]">>

\* What the anonymizer may report for one span: an applied item with a text
\* (<<>> when the item carries none), or no item for the span.  The first
\* text of each type is the new_value buildAnonymizersConfig asks for.
ItemChoices(t) ==
    CASE t = "PERSON"       -> {[applied |-> TRUE, text |-> PERSON_PH],
                                [applied |-> TRUE, text |-> AltPersonValue]}
      [] t = "PHONE_NUMBER" -> {[applied |-> TRUE, text |-> PHONE_PH]}
      [] t = "LOCATION"     -> {[applied |-> TRUE, text |-> LOCATION_PH],
                                [applied |-> TRUE, text |-> <<>>],
                                [applied |-> FALSE, text |-> <<>>]}
      [] OTHER              -> {[applied |-> TRUE, text |-> URL_PH],
                                [applied |-> TRUE, text |-> AltUrlValue],
                                [applied |-> TRUE, text |-> <<>>]}

\* The types whose transform is a fixed replacement string in the request
\* (buildAnonymizersConfig): the anonymizer treats all spans of such a type
\* alike.  The items of every other type all carry a text, which may differ
\* from span to span, or all carry none.
UniformTypes == {"PERSON", "PHONE_NUMBER", "LOCATION"}

\* One choice per span; made[t] is the choice made for all spans of type t,
\* if one was made.
RECURSIVE ChoiceSeqsGiven(_, _, _)
ChoiceSeqsGiven(spans, made, withText) ==
    IF spans = <<>> THEN {<<>>}
    ELSE LET t == Head(spans).entity_type
             rest == Tail(spans)
         IN  IF t \in DOMAIN made
             THEN {<<made[t]>> \o r : r \in ChoiceSeqsGiven(rest, made, withText)}
             ELSE UNION {{<<c>> \o r :
                            r \in ChoiceSeqsGiven(rest,
                                     IF t \in UniformTypes \/ c.text = <<>>
                                     THEN (t :> c) @@ made ELSE made,
                                     IF t \in UniformTypes \/ c.text = <<>>
                                     THEN withText ELSE withText \cup {t})} :
                         c \in {d \in ItemChoices(t) :
                                  t \in withText => d.text # <<>>}}

ChoiceSeqs(spans) == ChoiceSeqsGiven(spans, <<>>, {})

Overlap(a, b) == a.start < b.end /\ b.start < a.end

\* The spans the anonymizer replaces: the applied ones that no overlapping
\* applied span has priority over (longer first, then earlier in the list).
Replaced(spans, choice) ==
    {i \in 1..Len(spans) :
        /\ choice[i].applied
        /\ ~\E j \in 1..Len(spans) :
               /\ j # i /\ choice[j].applied /\ Overlap(spans[i], spans[j])
               /\ \/ (spans[j].end - spans[j].start) > (spans[i].end - spans[i].start)
                  \/ ((spans[j].end - spans[j].start) = (spans[i].end - spans[i].start)
                      /\ j < i)}

\* What a replaced span becomes: the item's text, or a mask when it has none.
ReplacementOf(span, c) ==
    IF c.text # <<>> THEN c.text ELSE [k \in 1..(span.end - span.start) |-> "*"]

\* The text with the replaced spans substituted, from offset p on.
RECURSIVE SubstituteFrom(_, _, _, _)
SubstituteFrom(t, spans, choice, p) ==
    IF p >= Len(t) THEN <<>>
    ELSE LET here == {i \in Replaced(spans, choice) : spans[i].start = p}
         IN  IF here = {} THEN <<t[p + 1]>> \o SubstituteFrom(t, spans, choice, p + 1)
             ELSE LET i == CHOOSE i \in here : TRUE
                  IN  ReplacementOf(spans[i], choice[i])
                      \o SubstituteFrom(t, spans, choice, spans[i].end)

\* The items of a reply: one per applied span, in the spans' order.
RECURSIVE ItemsOf(_, _)
ItemsOf(spans, choice) ==
    IF spans = <<>> THEN <<>>
    ELSE (IF Head(choice).applied
          THEN <<[entity_type |-> Head(spans).entity_type, text |-> Head(choice).text]>>
          ELSE <<>>)
         \o ItemsOf(Tail(spans), Tail(choice))

\* The spans the example's detector reports.
ScenarioSpans == <<Span("PERSON", 18, 26, 9), Span("PHONE_NUMBER", 52, 67, 8)>>

\* The two items of the example, carrying "[PERSON]" and "[PHONE]".
ScenarioItems ==
    <<[entity_type |-> "PERSON", text |-> PERSON_PH],
      [entity_type |-> "PHONE_NUMBER", text |-> PHONE_PH]>>

\* What the anonymizer answers (anonymizerResponse.data, lines 100-101):
\* the text with spans substituted and the applied items, or the text as it
\* was with no items.  For the example's spans, one of which reaches beyond
\* the text, it may also answer with the anonymized text of the example.
AnonymizerReplies(t, spans) ==
    {[text |-> t, items |-> <<>>]}
    \cup {[text |-> SubstituteFrom(t, spans, c, 0), items |-> ItemsOf(spans, c)] :
             c \in ChoiceSeqs(spans)}
    \cup (IF t = TextScenario /\ spans = ScenarioSpans
          THEN {[text |-> ScenarioAnonymized, items |-> ScenarioItems]}
          ELSE {})

\* ------------------------------------------------------------------------
\* The service as a state machine
\* ------------------------------------------------------------------------

VARIABLES
    entityMap,          \* this.entityMap (line 18)
    pc,                 \* where each anonymizeText call stands
    text,               \* each call's argument
    attempts,           \* failed attempts of the request a call awaits
    analyzerResults,    \* each call's analyzerResults (line 63)
    anonymizerResults,  \* each call's anonymizerResults (line 101)
    anonymizerCalled,   \* whether a call has posted its anonymizer request
    failed,             \* the service whose failure a call caught
    ret,                \* what each call gave its caller
    dropped,            \* whether the clear of a call in flight or just
                        \* returned found entries in the map
    lastOp,             \* the operation that completed last
    lastCall,           \* the anonymizeText call that returned last
    deanIn,             \* the argument of the last deanonymizeText
    deanOut,            \* what it returned
    listed              \* what the last getSensitiveEntities returned

vars == <<entityMap, pc, text, attempts, analyzerResults, anonymizerResults,
          anonymizerCalled, failed, ret, dropped, lastOp, lastCall, deanIn, deanOut,
          listed>>

\* The anonymizeText calls that can be in flight.
Calls == {1, 2}

\* retry({count: 2}) at lines 84 and 250.
RetryCount == 2

NoReturn == [kind |-> "none", anonymizedText |-> <<>>, entitiesFound |-> FALSE]

Returned(t, found) == [kind |-> "return", anonymizedText |-> t, entitiesFound |-> found]

Thrown == [kind |-> "throw", anonymizedText |-> <<>>, entitiesFound |-> FALSE]

\* The failure goes on to the caller.
CatchRethrow(t) == Thrown

\* The inner catch (lines 116-120): the failure is logged and the text
\* returned as it was.
CatchFallback(t) == Returned(t, FALSE)

\* The entries of the call before stay.
KeepPrevious(map) == map

\* this.entityMap.clear() at line 32.
ClearPrevious(map) == <<>>

\* Nothing is cleared.
MapClearNothing(map) == map

\* this.entityMap.clear() at line 165.
MapClear(map) == <<>>

\* Only a missing list counts as nothing found.
NothingFoundNullOnly(reply) == reply.isNull

\* The test of line 66: the analyzer found nothing.
NothingFound(reply) == reply.isNull \/ Len(reply.results) = 0

AllIdle == \A c \in Calls : pc[c] = "idle"

Init ==
    /\ entityMap = <<>>
    /\ pc = [c \in Calls |-> "idle"]
    /\ text = [c \in Calls |-> <<>>]
    /\ attempts = [c \in Calls |-> 0]
    /\ analyzerResults = [c \in Calls |-> <<>>]
    /\ anonymizerResults = [c \in Calls |-> <<>>]
    /\ anonymizerCalled = [c \in Calls |-> FALSE]
    /\ failed = [c \in Calls |-> "none"]
    /\ ret = [c \in Calls |-> NoReturn]
    /\ dropped = [c \in Calls |-> FALSE]
    /\ lastOp = "none"
    /\ lastCall = 0
    /\ deanIn = <<>>
    /\ deanOut = <<>>
    /\ listed = <<>>

\* anonymizeText up to its first await (lines 29-62, 171-248): the map is
\* cleared and the analyzer request posted.
AnonymizeStart(c, t) ==
    /\ pc[c] = "idle"
    /\ entityMap' = ClearPrevious(entityMap)
    /\ dropped' = [dropped EXCEPT ![c] = Len(entityMap) > 0]
    /\ pc' = [pc EXCEPT ![c] = "analyzer"]
    /\ text' = [text EXCEPT ![c] = t]
    /\ attempts' = [attempts EXCEPT ![c] = 0]
    /\ analyzerResults' = [analyzerResults EXCEPT ![c] = <<>>]
    /\ anonymizerResults' = [anonymizerResults EXCEPT ![c] = <<>>]
    /\ anonymizerCalled' = [anonymizerCalled EXCEPT ![c] = FALSE]
    /\ failed' = [failed EXCEPT ![c] = "none"]
    /\ ret' = [ret EXCEPT ![c] = NoReturn]
    /\ lastOp' = "pending"
    /\ UNCHANGED lastCall
    /\ deanIn' = <<>>
    /\ deanOut' = <<>>
    /\ listed' = <<>>

\* The analyzer answers (lines 62-98): with nothing found the call returns
\* the text; otherwise it posts the anonymizer request.
AnalyzerReplyIs(c, reply) ==
    /\ pc[c] = "analyzer"
    /\ IF NothingFound(reply)
       THEN /\ ret' = [ret EXCEPT ![c] = Returned(text[c], FALSE)]
            /\ pc' = [pc EXCEPT ![c] = "idle"]
            /\ lastOp' = "anonymizeText"
            /\ lastCall' = c
            /\ UNCHANGED <<analyzerResults, anonymizerCalled>>
       ELSE /\ analyzerResults' = [analyzerResults EXCEPT ![c] = reply.results]
            /\ anonymizerCalled' = [anonymizerCalled EXCEPT ![c] = TRUE]
            /\ pc' = [pc EXCEPT ![c] = "anonymizer"]
            /\ UNCHANGED <<ret, lastOp, lastCall>>
    /\ attempts' = [attempts EXCEPT ![c] = 0]
    /\ UNCHANGED <<entityMap, text, anonymizerResults, failed, dropped, deanIn, deanOut,
                   listed>>

\* A request fails (lines 82-97, 248-269): it is retried RetryCount times,
\* then the error reaches the inner catch (lines 116-120).
RequestFails(c, service) ==
    /\ pc[c] = service
    /\ IF attempts[c] < RetryCount
       THEN /\ attempts' = [attempts EXCEPT ![c] = attempts[c] + 1]
            /\ UNCHANGED <<pc, failed, ret, lastOp, lastCall>>
       ELSE /\ attempts' = [attempts EXCEPT ![c] = 0]
            /\ failed' = [failed EXCEPT ![c] = service]
            /\ ret' = [ret EXCEPT ![c] = CatchFallback(text[c])]
            /\ pc' = [pc EXCEPT ![c] = "idle"]
            /\ lastOp' = "anonymizeText"
            /\ lastCall' = c
    /\ UNCHANGED <<entityMap, text, analyzerResults, anonymizerResults,
                   anonymizerCalled, dropped, deanIn, deanOut, listed>>

AnalyzerReply(c) ==
    /\ pc[c] = "analyzer"
    /\ \E reply \in AnalyzerReplies(text[c]) : AnalyzerReplyIs(c, reply)

\* The analyzer's failure is swallowed and the call goes on.
AnalyzerFailureIgnored(c) ==
    /\ pc[c] = "analyzer"
    /\ failed' = [failed EXCEPT ![c] = "analyzer"]
    /\ anonymizerCalled' = [anonymizerCalled EXCEPT ![c] = TRUE]
    /\ pc' = [pc EXCEPT ![c] = "anonymizer"]
    /\ attempts' = [attempts EXCEPT ![c] = 0]
    /\ UNCHANGED <<entityMap, text, analyzerResults, anonymizerResults, ret, dropped,
                   lastOp, lastCall, deanIn, deanOut, listed>>

AnalyzerFails(c) == RequestFails(c, "analyzer")

AnonymizerFails(c) == RequestFails(c, "anonymizer")

\* The anonymizer answers (lines 100-115): the mapping is built and the
\* anonymized text returned.
AnonymizerReplyIs(c, reply) ==
    /\ pc[c] = "anonymizer"
    /\ LET built == BuildEntityMapping(entityMap, text[c], reply.items,
                                       analyzerResults[c])
       IN  /\ entityMap' = built
           /\ ret' = [ret EXCEPT ![c] = Returned(reply.text, Len(built) > 0)]
    /\ anonymizerResults' = [anonymizerResults EXCEPT ![c] = reply.items]
    /\ attempts' = [attempts EXCEPT ![c] = 0]
    /\ pc' = [pc EXCEPT ![c] = "idle"]
    /\ lastOp' = "anonymizeText"
    /\ lastCall' = c
    /\ UNCHANGED <<text, analyzerResults, anonymizerCalled, failed, dropped, deanIn,
                   deanOut, listed>>

AnonymizerReply(c) ==
    /\ pc[c] = "anonymizer"
    /\ \E reply \in AnonymizerReplies(text[c], analyzerResults[c]) :
           AnonymizerReplyIs(c, reply)

\* "[[PERSON]] [PERSON]"
SampleNested == AltUrlValue \o <<" ">> \o PERSON_PH

\* The texts a caller passes to deanonymizeText (line 130): what the calls
\* returned, and a text of its own.
DeanonymizeInputs ==
    {SampleNested}
    \cup {ret[c].anonymizedText : c \in {d \in Calls : ret[d].kind = "return"}}

\* deanonymizeText (lines 130-152).
DeanonymizeText(x) ==
    /\ deanIn' = x
    /\ deanOut' = DeanonymizedText(entityMap, x)
    /\ lastOp' = "deanonymizeText"
    /\ listed' = <<>>
    /\ dropped' = [c \in Calls |-> IF pc[c] = "idle" THEN FALSE ELSE dropped[c]]
    /\ UNCHANGED <<entityMap, pc, text, attempts, analyzerResults, anonymizerResults,
                   anonymizerCalled, failed, ret, lastCall>>

\* getSensitiveEntities (lines 157-159).
GetSensitiveEntities ==
    /\ listed' = MapValues(entityMap)
    /\ lastOp' = "getSensitiveEntities"
    /\ deanIn' = <<>>
    /\ deanOut' = <<>>
    /\ dropped' = [c \in Calls |-> IF pc[c] = "idle" THEN FALSE ELSE dropped[c]]
    /\ UNCHANGED <<entityMap, pc, text, attempts, analyzerResults, anonymizerResults,
                   anonymizerCalled, failed, ret, lastCall>>

\* clearEntityMapping (lines 164-166).  The values of the calls that have
\* returned are dropped with it.
ClearEntityMapping ==
    /\ entityMap' = MapClear(entityMap)
    /\ lastOp' = "clearEntityMapping"
    /\ text' = [c \in Calls |-> IF pc[c] = "idle" THEN <<>> ELSE text[c]]
    /\ analyzerResults' = [c \in Calls |-> IF pc[c] = "idle" THEN <<>>
                                            ELSE analyzerResults[c]]
    /\ anonymizerResults' = [c \in Calls |-> IF pc[c] = "idle" THEN <<>>
                                              ELSE anonymizerResults[c]]
    /\ anonymizerCalled' = [c \in Calls |-> IF pc[c] = "idle" THEN FALSE
                                             ELSE anonymizerCalled[c]]
    /\ failed' = [c \in Calls |-> IF pc[c] = "idle" THEN "none" ELSE failed[c]]
    /\ ret' = [c \in Calls |-> IF pc[c] = "idle" THEN NoReturn ELSE ret[c]]
    /\ dropped' = [c \in Calls |-> IF pc[c] = "idle" THEN FALSE ELSE dropped[c]]
    /\ lastCall' = 0
    /\ deanIn' = <<>>
    /\ deanOut' = <<>>
    /\ listed' = <<>>
    /\ UNCHANGED <<pc, attempts>>

\* The calls of the service one after another: an operation starts only
\* when no anonymizeText call is in flight.
Next ==
    \/ \E t \in Texts : AllIdle /\ AnonymizeStart(1, t)
    \/ AnalyzerReply(1)
    \/ AnalyzerFails(1)
    \/ AnonymizerReply(1)
    \/ AnonymizerFails(1)
    \/ AllIdle /\ \E x \in DeanonymizeInputs : DeanonymizeText(x)
    \/ AllIdle /\ GetSensitiveEntities
    \/ AllIdle /\ ClearEntityMapping

Spec == Init /\ [][Next]_vars

\* ------------------------------------------------------------------------
\* Two anonymizeText calls in flight at once
\* ------------------------------------------------------------------------

\* The texts of the overlapping calls.
OverlapTexts == {TextPersons, TextUrl}

\* What the analyzer answers an overlapping call: no data, no span or one.
OverlapAnalyzerReplies(t) ==
    {[isNull |-> TRUE, results |-> <<>>], [isNull |-> FALSE, results |-> <<>>]}
    \cup {[isNull |-> FALSE, results |-> <<sp>>] : sp \in SpanCandidates(t)}

OverlapAnalyzerReply(c) ==
    /\ pc[c] = "analyzer"
    /\ \E reply \in OverlapAnalyzerReplies(text[c]) : AnalyzerReplyIs(c, reply)

\* Nothing in anonymizeText keeps a second call from starting while the
\* first awaits a reply (lines 62 and 77): call 1 starts with no call in
\* flight, call 2 while call 1 is in flight, once; clearEntityMapping comes
\* between two such rounds.
NextOverlap ==
    \/ \E t \in OverlapTexts :
           AllIdle /\ ret[2] = NoReturn /\ AnonymizeStart(1, t)
    \/ \E t \in OverlapTexts :
           pc[1] # "idle" /\ ret[2] = NoReturn /\ AnonymizeStart(2, t)
    \/ \E c \in Calls : OverlapAnalyzerReply(c)
    \/ \E c \in Calls : AnalyzerFails(c)
    \/ \E c \in Calls : AnonymizerReply(c)
    \/ \E c \in Calls : AnonymizerFails(c)
    \/ AllIdle /\ \E x \in DeanonymizeInputs : DeanonymizeText(x)
    \/ AllIdle /\ GetSensitiveEntities
    \/ AllIdle /\ ClearEntityMapping

SpecOverlap == Init /\ [][NextOverlap]_vars

\* ------------------------------------------------------------------------
\* Properties
\* ------------------------------------------------------------------------

\* The entity types findBestMatch reduces to one entry (lines 504-505).
ReducedTypes == {"PHONE_NUMBER", "PERSON"}

\* The placeholder the anonymizer is asked to put for a type
\* (buildAnonymizersConfig, lines 276-402).
ConfiguredValue(t) ==
    CASE t = "PERSON"       -> PERSON_PH
      [] t = "PHONE_NUMBER" -> PHONE_PH
      [] t = "LOCATION"     -> LOCATION_PH
      [] OTHER              -> URL_PH

Placeholders == {PERSON_PH, PHONE_PH, LOCATION_PH, URL_PH}

Occurs(pat, t) == \E i \in 1..Len(t) : MatchAt(t, [k \in 1..Len(pat) |-> [lit |-> pat[k]]], i)

\* Call c has returned and nothing has been called since.
JustReturned(c) == lastOp = "anonymizeText" /\ lastCall = c /\ ret[c].kind = "return"

\* The entries of the map whose entity type is t.
EntriesOfType(map, t) == SelectSeq(MapValues(map), LAMBDA e : e.entityType = t)

\* The anonymizer of call c replaced each detected span by the placeholder of
\* its category: the spans are apart, every item carries the placeholder, and
\* the returned text is the call's text with each span substituted.
EachSpanReplaced(c) ==
    LET spans == analyzerResults[c]
        choice == [i \in 1..Len(spans) |->
                     [applied |-> TRUE, text |-> ConfiguredValue(spans[i].entity_type)]]
    IN  /\ ret[c].kind = "return"
        /\ Len(spans) > 0
        /\ \A i, j \in 1..Len(spans) : i # j => ~Overlap(spans[i], spans[j])
        /\ anonymizerResults[c] = ItemsOf(spans, choice)
        /\ ret[c].anonymizedText = SubstituteFrom(text[c], spans, choice, 0)

\* C1: round trip.  When the anonymizer replaced each detected span by its
\* category placeholder and the text held no placeholder beforehand,
\* deanonymizeText of the anonymized text a call returned gives the call's
\* text back, also with several entities of one category.
C1_RoundTrip ==
    \A c \in Calls :
        (/\ lastOp = "deanonymizeText"
         /\ EachSpanReplaced(c)
         /\ \A ph \in Placeholders : ~Occurs(ph, text[c])
         /\ deanIn = ret[c].anonymizedText)
        => deanOut = text[c]

\* C2: soft fail.  No call raises to its caller, and a call that caught the
\* failure of the analyzer or of the anonymizer returned its text as it was,
\* with entitiesFound false.
C2_SoftFail ==
    \A c \in Calls :
        /\ ret[c].kind # "throw"
        /\ failed[c] # "none" => ret[c] = Returned(text[c], FALSE)

\* A call returned after its anonymizer request failed for good.
C2_Witness ==
    /\ JustReturned(1)
    /\ failed[1] = "anonymizer"
    /\ anonymizerCalled[1]
    /\ Len(text[1]) > 0
    /\ ret[1].anonymizedText = text[1]

\* C3: when the analyzer reports no span (an empty list or none at all), the
\* call returns its text unchanged with entitiesFound false, has posted no
\* anonymizer request, and the map is empty.
C3_NoDetections ==
    \A c \in Calls :
        (JustReturned(c) /\ failed[c] = "none" /\ analyzerResults[c] = <<>>)
        => /\ ret[c] = Returned(text[c], FALSE)
           /\ ~anonymizerCalled[c]
           /\ entityMap = <<>>

\* A call returned with no detections, after an earlier call had left
\* entries in the map.
C3_Witness ==
    /\ JustReturned(1)
    /\ failed[1] = "none"
    /\ analyzerResults[1] = <<>>
    /\ dropped[1]
    /\ Len(text[1]) > 0

\* C4: when an anonymizeText call has returned, every entry of the map was
\* built from that call's text and from a span the analyzer reported to that
\* call; no entry of an earlier call is left.
C4_Lifecycle ==
    \A c \in Calls :
        JustReturned(c) =>
            \A i \in 1..Len(entityMap) :
                LET e == entityMap[i].value
                IN  /\ e.original = Substring(text[c], e.start, e.end)
                    /\ \E k \in 1..Len(analyzerResults[c]) :
                           /\ analyzerResults[c][k].entity_type = e.entityType
                           /\ analyzerResults[c][k].start = e.start
                           /\ analyzerResults[c][k].end = e.end

\* A call that found entries of an earlier call in the map has returned
\* with entries of its own.
C4_Witness ==
    /\ JustReturned(1)
    /\ dropped[1]
    /\ Len(entityMap) > 0

\* The positions of the spans of type t reported to call c that pass the
\* filter: a PERSON span must be at least three characters long.
Candidates(c, t) ==
    {<<analyzerResults[c][k].start, analyzerResults[c][k].end>> :
        k \in {j \in 1..Len(analyzerResults[c]) :
                 /\ analyzerResults[c][j].entity_type = t
                 /\ (t = "PERSON" =>
                       analyzerResults[c][j].end - analyzerResults[c][j].start >= 3)}}

\* C5: after a call has returned the map holds at most one PERSON entry and
\* at most one PHONE_NUMBER entry; when several entries of such a type were
\* there after filtering, the one left is under the key (type, "best") and no
\* positional key of the type is left; the entries of the other types stay
\* under their positional keys.
C5_OnePerReducedType ==
    \A c \in Calls :
        JustReturned(c) =>
            /\ \A t \in ReducedTypes : Len(EntriesOfType(entityMap, t)) <= 1
            /\ anonymizerResults[c] # <<>> =>
                 /\ \A t \in ReducedTypes :
                        Cardinality(Candidates(c, t)) > 1 =>
                            /\ MapHas(entityMap, BestKey(t))
                            /\ \A i \in 1..Len(entityMap) :
                                   entityMap[i].key[1] = t
                                       => entityMap[i].key = <<t, "best">>
                            /\ <<MapGet(entityMap, BestKey(t)).start,
                                 MapGet(entityMap, BestKey(t)).end>> \in Candidates(c, t)
                 /\ \A k \in 1..Len(analyzerResults[c]) :
                        LET s == analyzerResults[c][k]
                            key == SpanKey(s.entity_type, s.start, s.end)
                        IN  s.entity_type \notin ReducedTypes =>
                                /\ MapHas(entityMap, key)
                                /\ MapGet(entityMap, key).original
                                       = Substring(text[c], s.start, s.end)

\* Two phone numbers were reduced to one while a LOCATION entry stayed.
C5_Witness ==
    /\ JustReturned(1)
    /\ Cardinality(Candidates(1, "PHONE_NUMBER")) > 1
    /\ MapHas(entityMap, BestKey("PHONE_NUMBER"))
    /\ MapHas(entityMap, SpanKey("LOCATION", 12, 16))

\* The character findBestMatch looks for in the originals of a type.
Marker(t) == IF t = "PHONE_NUMBER" THEN "+" ELSE " "

\* The orders in which the analyzer can list the same spans.
Orders(spans) ==
    LET n == Len(spans)
    IN  {[i \in 1..n |-> spans[f[i]]] :
            f \in {g \in [1..n -> 1..n] : \A i, j \in 1..n : i # j => g[i] # g[j]}}

\* The entry of type t left in the map of call c has the marker when an entry
\* that passed the filter has it, and is the longest among the entries that
\* agree with it on the marker.
BestIsMostComplete(c, t) ==
    LET w == MapGet(entityMap, BestKey(t)).original
        originals == {Substring(text[c], p[1], p[2]) : p \in Candidates(c, t)}
    IN  /\ w \in originals
        /\ (\E o \in originals : Includes(o, Marker(t))) => Includes(w, Marker(t))
        /\ \A o \in originals :
               (Includes(o, Marker(t)) <=> Includes(w, Marker(t))) => Len(o) <= Len(w)

\* Listing the spans of call c in any other order leaves the same entry of
\* type t.
SameBestInEveryOrder(c, t) ==
    \A order \in Orders(analyzerResults[c]) :
        LET other == BuildEntityMapping(<<>>, text[c], anonymizerResults[c], order)
        IN  /\ MapHas(other, BestKey(t))
            /\ MapGet(other, BestKey(t)) = MapGet(entityMap, BestKey(t))

\* No two spans of type t reported to call c at different positions agree
\* in marker, length and score.
NoFullTie(c, t) ==
    LET spans == analyzerResults[c]
        ofType == {k \in 1..Len(spans) :
                     /\ spans[k].entity_type = t
                     /\ <<spans[k].start, spans[k].end>> \in Candidates(c, t)}
        orig(k) == Substring(text[c], spans[k].start, spans[k].end)
    IN  \A j, k \in ofType :
            (spans[j].start # spans[k].start \/ spans[j].end # spans[k].end)
            => ~(/\ Includes(orig(j), Marker(t)) <=> Includes(orig(k), Marker(t))
                 /\ Len(orig(j)) = Len(orig(k))
                 /\ spans[j].score = spans[k].score)

C7_ShortPersonDropped ==
    \A c \in Calls :
        JustReturned(c) =>
            /\ \A i \in 1..Len(entityMap) :
                   entityMap[i].value.entityType = "PERSON"
                       => Len(entityMap[i].value.original) >= 3
            /\ (anonymizerResults[c] # <<>> /\ Cardinality(Candidates(c, "PERSON")) = 1)
               => /\ ~MapHas(entityMap, BestKey("PERSON"))
                  /\ \A p \in Candidates(c, "PERSON") :
                         MapHas(entityMap, SpanKey("PERSON", p[1], p[2]))

\* "Al" and "Doe" were reported; "Doe" is in the map under its position.
C7_Witness ==
    /\ JustReturned(1)
    /\ \E k \in 1..Len(analyzerResults[1]) :
           analyzerResults[1][k] = Span("PERSON", 0, 2, 8)
    /\ MapHas(entityMap, SpanKey("PERSON", 3, 6))
    /\ ~MapHas(entityMap, BestKey("PERSON"))

\* The types with a fixed placeholder and that placeholder.
FixedTypes == {"PERSON", "PHONE_NUMBER", "DATE_TIME", "ORGANIZATION", "LOCATION"}

FixedPlaceholder(t) ==
    CASE t = "PERSON"       -> PERSON_PH
      [] t = "PHONE_NUMBER" -> PHONE_PH
      [] t = "DATE_TIME"    -> DATE_TIME_PH
      [] t = "ORGANIZATION" -> ORGANIZATION_PH
      [] t = "LOCATION"     -> LOCATION_PH

\* The applied items of call c that name type t.
ItemsOfType(c, t) == SelectSeq(anonymizerResults[c], LAMBDA r : r.entity_type = t)

\* C8 as claimed: an entry whose type the applied items name has the text an
\* item of the type carries when one carries a text; with no text, it has the
\* fixed placeholder of the type, or "[TYPE]" for a type without one.
C8_LiteralFirst ==
    \A c \in Calls :
        JustReturned(c) =>
            \A i \in 1..Len(entityMap) :
                LET e == entityMap[i].value
                    items == ItemsOfType(c, e.entityType)
                IN  items # <<>> =>
                        IF \E k \in 1..Len(items) : items[k].text # <<>>
                        THEN \E k \in 1..Len(items) :
                                 items[k].text # <<>> /\ e.anonymized = items[k].text
                        ELSE e.anonymized =
                                 IF e.entityType \in FixedTypes
                                 THEN FixedPlaceholder(e.entityType)
                                 ELSE Bracketed(e.entityType)

\* C8 as amended: an entry of PERSON, PHONE_NUMBER, DATE_TIME, ORGANIZATION or
\* LOCATION has the fixed placeholder of its type whatever the items carry;
\* an entry of another type the applied items name has the text of the last
\* item of the type when that item carries one, and "[TYPE]" otherwise.
C8_PlaceholderResolution ==
    \A c \in Calls :
        JustReturned(c) =>
            \A i \in 1..Len(entityMap) :
                LET e == entityMap[i].value
                    items == ItemsOfType(c, e.entityType)
                IN  items # <<>> =>
                        e.anonymized =
                            IF e.entityType \in FixedTypes
                            THEN FixedPlaceholder(e.entityType)
                            ELSE IF items[Len(items)].text # <<>>
                            THEN items[Len(items)].text
                            ELSE Bracketed(e.entityType)

\* The PERSON item carried "<PERSON>" and the entry has "[PERSON]"; the URL
\* item carried "[[PERSON]]" and the entry has it.
C8_Witness ==
    /\ JustReturned(1)
    /\ \E k \in 1..Len(anonymizerResults[1]) :
           anonymizerResults[1][k] = [entity_type |-> "PERSON", text |-> AltPersonValue]
    /\ MapHas(entityMap, SpanKey("PERSON", 0, 3))
    /\ MapGet(entityMap, SpanKey("PERSON", 0, 3)).anonymized = PERSON_PH
    /\ MapHas(entityMap, SpanKey("URL", 4, 7))
    /\ MapGet(entityMap, SpanKey("URL", 4, 7)).anonymized = AltUrlValue

\* C9: clearEntityMapping leaves the map empty, and with the map empty
\* deanonymizeText returns its argument.
C9_EmptyMapIdentity ==
    /\ lastOp = "clearEntityMapping" => entityMap = <<>>
    /\ (lastOp = "deanonymizeText" /\ entityMap = <<>>) => deanOut = deanIn

\* deanonymizeText was given a text with placeholders after a call that
\* mapped nothing.
C9_Witness ==
    /\ lastOp = "deanonymizeText"
    /\ entityMap = <<>>
    /\ ret[1].kind = "return"
    /\ deanIn = SampleNested
    /\ deanOut = SampleNested

\* The text with every occurrence of the longer placeholder replaced by the
\* longer entry's original and every other occurrence of the shorter one by
\* the shorter entry's original, from position i on.
RECURSIVE RestoredFrom(_, _, _, _)
RestoredFrom(x, longer, shorter, i) ==
    LET Lit(pat) == [k \in 1..Len(pat) |-> [lit |-> pat[k]]]
    IN  IF i > Len(x) THEN <<>>
        ELSE IF MatchAt(x, Lit(longer.anonymized), i)
        THEN longer.original
             \o RestoredFrom(x, longer, shorter, i + Len(longer.anonymized))
        ELSE IF MatchAt(x, Lit(shorter.anonymized), i)
        THEN shorter.original
             \o RestoredFrom(x, longer, shorter, i + Len(shorter.anonymized))
        ELSE <<x[i]>> \o RestoredFrom(x, longer, shorter, i + 1)

\* C10: with two entries in the map, the placeholder of one inside the
\* placeholder of the other, deanonymizeText restores every occurrence of the
\* longer placeholder to the longer entry's original and every occurrence of
\* the shorter one to the shorter entry's original, in whichever order the
\* entries were put in the map.
C10_LongerFirst ==
    (lastOp = "deanonymizeText" /\ Len(entityMap) = 2) =>
        \A a, b \in 1..2 :
            LET longer == entityMap[a].value
                shorter == entityMap[b].value
            IN  (/\ Len(longer.anonymized) > Len(shorter.anonymized)
                 /\ Occurs(shorter.anonymized, longer.anonymized))
                => deanOut = RestoredFrom(deanIn, longer, shorter, 1)

\* The spans of the example with the phone number where the text has it.
ScenarioSpansInText == <<Span("PERSON", 18, 26, 9), Span("PHONE_NUMBER", 50, 65, 8)>>

\* Call c is the example's call with the detector reporting spans and the
\* anonymizer the two placeholder items, and nothing but deanonymizeText or
\* getSensitiveEntities has been called since it returned.
ScenarioCall(c, spans) ==
    /\ lastCall = c
    /\ lastOp \in {"anonymizeText", "deanonymizeText", "getSensitiveEntities"}
    /\ text[c] = TextScenario
    /\ analyzerResults[c] = spans
    /\ anonymizerResults[c] = ScenarioItems

\* What the example promises of call c: the anonymized text of the example
\* with entitiesFound true, and the text back from deanonymizeText.
ScenarioHolds(c) ==
    /\ ret[c] = Returned(ScenarioAnonymized, TRUE)
    /\ (lastOp = "deanonymizeText" /\ deanIn = ret[c].anonymizedText)
       => deanOut = TextScenario

\* C11 as claimed: with the PERSON span [18,26) and the PHONE_NUMBER span
\* [52,67) detected and the items "[PERSON]" and "[PHONE]", anonymizeText
\* returns the example's anonymized text with entitiesFound true and
\* deanonymizeText of it gives the input back.
C11_ScenarioAsStated ==
    \A c \in Calls : ScenarioCall(c, ScenarioSpans) => ScenarioHolds(c)

\* C11 as amended: the same with the PHONE_NUMBER span at [50,65), where the
\* text has the phone number.
C11_Scenario ==
    \A c \in Calls : ScenarioCall(c, ScenarioSpansInText) => ScenarioHolds(c)

\* The example's call with the phone number at [50,65) has returned and its
\* anonymized text has been given to deanonymizeText.
C11_Witness ==
    /\ ScenarioCall(1, ScenarioSpansInText)
    /\ lastOp = "deanonymizeText"
    /\ deanIn = ScenarioAnonymized
    /\ deanOut = TextScenario
    /\ Len(entityMap) = 2

\* Both calls have returned with a mapping built, call c last, and nothing
\* but deanonymizeText or getSensitiveEntities has been called since.
BothBuilt(c, o) ==
    /\ c # o
    /\ AllIdle
    /\ lastCall = c
    /\ lastOp \in {"anonymizeText", "deanonymizeText", "getSensitiveEntities"}
    /\ \A d \in {c, o} : /\ ret[d].kind = "return"
                          /\ failed[d] = "none"
                          /\ anonymizerResults[d] # <<>>

\* C12: when two calls overlapped (each cleared the map before either built
\* its mapping) and both have returned, the map still holds, after the call
\* that returned last, the entries built from the other call's text: every
\* span of the other call of a type that is not reduced is there with its
\* original, unless the last call set the same key.
C12_OverlapMixes ==
    \A c, o \in Calls :
        BothBuilt(c, o) =>
            \A k \in 1..Len(analyzerResults[o]) :
                LET sp == analyzerResults[o][k]
                    key == SpanKey(sp.entity_type, sp.start, sp.end)
                IN  (/\ sp.entity_type \notin ReducedTypes
                     /\ \A j \in 1..Len(analyzerResults[c]) :
                            SpanKey(analyzerResults[c][j].entity_type,
                                    analyzerResults[c][j].start,
                                    analyzerResults[c][j].end) # key)
                    => /\ MapHas(entityMap, key)
                       /\ MapGet(entityMap, key).original
                              = Substring(text[o], sp.start, sp.end)

\* Call 1 found "Al Doe" in its text and call 2, the later one, "Bob" in
\* its own: deanonymizeText of what call 2 returned has "Al Doe", of call
\* 1's text, where "Bob" was.
C12_Witness ==
    /\ BothBuilt(2, 1)
    /\ text[1] = TextPersons
    /\ text[2] = TextUrl
    /\ analyzerResults[1] = <<Span("PERSON", 0, 6, 9)>>
    /\ analyzerResults[2] = <<Span("PERSON", 0, 3, 9)>>
    /\ lastOp = "deanonymizeText"
    /\ deanIn = ret[2].anonymizedText
    /\ deanIn = PERSON_PH \o Substring(TextUrl, 3, 10)
    /\ deanOut = Substring(TextPersons, 0, 6) \o Substring(TextUrl, 3, 10)

\* C13: in every step, a call posts its anonymizer request only from its
\* wait for the analyzer, on an answer with at least one span and with no
\* failure caught; the map gets entries only in the step in which a call
\* that has posted its anonymizer request takes the anonymizer's answer; and
\* a call that caught the analyzer's failure has posted no anonymizer
\* request.
C13_Sequential ==
    [][/\ \A c \in Calls :
             /\ (anonymizerCalled'[c] /\ ~anonymizerCalled[c])
                => /\ pc[c] = "analyzer"
                   /\ pc'[c] = "anonymizer"
                   /\ analyzerResults'[c] # <<>>
                   /\ failed'[c] = "none"
             /\ pc'[c] = "anonymizer" => anonymizerCalled'[c]
             /\ failed'[c] = "analyzer" => ~anonymizerCalled'[c]
       /\ (entityMap' # entityMap /\ entityMap' # <<>>)
          => \E c \in Calls :
                 /\ pc[c] = "anonymizer"
                 /\ anonymizerCalled[c]
                 /\ pc'[c] = "idle"
                 /\ failed'[c] = "none"
                 /\ anonymizerResults'[c] # <<>>
                 /\ ret'[c].kind = "return"]_vars

\* A call has gone through both requests and returned with the map built.
C13_Witness ==
    /\ JustReturned(1)
    /\ anonymizerCalled[1]
    /\ failed[1] = "none"
    /\ Len(analyzerResults[1]) > 0
    /\ Len(anonymizerResults[1]) > 0
    /\ Len(entityMap) > 0

\* The positions of the spans of type t reported to call c.
PositionsOfType(c, t) ==
    {<<analyzerResults[c][k].start, analyzerResults[c][k].end>> :
        k \in {j \in 1..Len(analyzerResults[c]) : analyzerResults[c][j].entity_type = t}}

\* C14: after a call has returned with applied items, the map holds, for a
\* type that is not reduced, exactly one entry for each position at which a
\* span of the type was reported: a position reported twice has one entry,
\* and spans that overlap without being the same have one entry each.
C14_OnePerPosition ==
    \A c \in Calls :
        (JustReturned(c) /\ anonymizerResults[c] # <<>>) =>
            \A t \in {analyzerResults[c][k].entity_type : k \in 1..Len(analyzerResults[c])}
                     \ ReducedTypes :
                LET entries == EntriesOfType(entityMap, t)
                IN  /\ Len(entries) = Cardinality(PositionsOfType(c, t))
                    /\ {<<entries[i].start, entries[i].end>> : i \in 1..Len(entries)}
                           = PositionsOfType(c, t)
                    /\ \A i \in 1..Len(entries) :
                           entries[i].original
                               = Substring(text[c], entries[i].start, entries[i].end)

\* "Rome" was reported twice and "Rome Oslo", which overlaps it, once: the
\* map has one LOCATION entry for each of the two positions.
C14_Witness ==
    /\ JustReturned(1)
    /\ text[1] = TextPhones
    /\ anonymizerResults[1] # <<>>
    /\ Len(SelectSeq(analyzerResults[1],
                     LAMBDA r : r = Span("LOCATION", 12, 16, 9))) = 2
    /\ \E k \in 1..Len(analyzerResults[1]) :
           analyzerResults[1][k] = Span("LOCATION", 12, 21, 8)
    /\ Len(EntriesOfType(entityMap, "LOCATION")) = 2
    /\ MapHas(entityMap, SpanKey("LOCATION", 12, 16))
    /\ MapHas(entityMap, SpanKey("LOCATION", 12, 21))

\* C15: when a call has returned, entitiesFound is true exactly when the map
\* has an entry; and when the anonymizer answered with no applied item, or
\* every span reported was a PERSON span shorter than three characters, the
\* map is empty and entitiesFound false.
C15_FoundIffMapped ==
    \A c \in Calls :
        JustReturned(c) =>
            /\ ret[c].entitiesFound <=> Len(entityMap) > 0
            /\ (/\ anonymizerCalled[c]
                /\ failed[c] = "none"
                /\ \/ anonymizerResults[c] = <<>>
                   \/ \A k \in 1..Len(analyzerResults[c]) :
                          /\ analyzerResults[c][k].entity_type = "PERSON"
                          /\ analyzerResults[c][k].end - analyzerResults[c][k].start < 3)
               => /\ entityMap = <<>>
                  /\ ~ret[c].entitiesFound

\* Only "Al" was reported and the anonymizer replaced it: the call returned
\* the anonymizer's text, not its own, with entitiesFound false.
C15_Witness ==
    /\ JustReturned(1)
    /\ failed[1] = "none"
    /\ analyzerResults[1] = <<Span("PERSON", 0, 2, 8)>>
    /\ anonymizerResults[1] # <<>>
    /\ ret[1].anonymizedText # text[1]
    /\ ~ret[1].entitiesFound
    /\ entityMap = <<>>

====
